---------------------------- MODULE Spec2Model ----------------------------
(***************************************************************************)
(* A model of the farbfeld decoders of this repository:                    *)
(*   - src/farbfeld.rs      Farbfeld::load, a streaming decoder over a     *)
(*                          Read, with the lookups get / get_pos / Index   *)
(*   - src/new_farb/        Farbfeld::from_read, which reads the source    *)
(*                          to its end and runs the nom parser parse_farb, *)
(*                          and the validating constructor Farbfeld::new   *)
(* Bytes are 0..255.  A u16 is a number 0..65535.  A u32 is a record       *)
(* [hi, lo] of two 16-bit halves, so that products keep their 32-bit width *)
(* (wrapping, or panicking in a build with overflow checks).               *)
(***************************************************************************)
EXTENDS Integers, Sequences, FiniteSets, TLC

(* ------------------------------ bounds -------------------------------- *)

\* complete pixel records in an input stream or a constructor argument
MaxRecords == 3

\* largest linear index tried by the lookups get / Index<usize>
MaxIndex == 4

(* --------------------------- option values ---------------------------- *)

None == [t |-> "None"]

Some(x) == [t |-> "Some", v |-> x]

\* a thread that panicked (index out of bounds, arithmetic overflow)
Panic == [t |-> "Panic"]

Ok(x) == [t |-> "Ok", v |-> x]

Err(e) == [t |-> "Err", e |-> e]

(* ------------------------------ u32 ----------------------------------- *)

U32(n) == [hi |-> n \div 65536, lo |-> n % 65536]

\* the 32-bit product of two 16-bit numbers, as [hi, lo]
Mul16(a, b) ==
    LET p1 == (a \div 256) * b
        p0 == (a % 256) * b
        s  == (p1 % 256) * 256 + p0
    IN  [hi |-> (p1 \div 256) + (s \div 65536), lo |-> s % 65536]

\* u32 * u32: the wrapped product and whether the true product overflowed
MulU32(a, b) ==
    LET ll  == Mul16(a.lo, b.lo)
        lh  == Mul16(a.lo, b.hi)
        hl  == Mul16(a.hi, b.lo)
        mid == ll.hi + lh.lo + hl.lo
    IN  [v   |-> [hi |-> mid % 65536, lo |-> ll.lo],
         ovf |-> \/ (a.hi # 0 /\ b.hi # 0)
                 \/ lh.hi # 0
                 \/ hl.hi # 0
                 \/ mid >= 65536]

\* u32 + u32: the wrapped sum and whether the true sum overflowed
AddU32(a, b) ==
    LET lo == a.lo + b.lo
        hi == a.hi + b.hi + (lo \div 65536)
    IN  [v   |-> [hi |-> hi % 65536, lo |-> lo % 65536],
         ovf |-> hi >= 65536]

\* (u32 as usize) > len, for a Vec length len (usize is at least 32 bits wide)
GtLen(u, len) == u.hi # 0 \/ u.lo > len

(* ----------------------------- pixels --------------------------------- *)

\* ReadBytesExt::read_u16::<BigEndian> of two bytes
read_u16_be(b) == b[1] * 256 + b[2]

\* ReadBytesExt::read_u32::<BigEndian> of four bytes
read_u32_be(b) == [hi |-> b[1] * 256 + b[2], lo |-> b[3] * 256 + b[4]]

\* farbfeld.rs Pixel::new(&buff): the four cursors never fail on two bytes
Pixel_new(buff) ==
    [red   |-> read_u16_be(SubSeq(buff, 1, 2)),
     green |-> read_u16_be(SubSeq(buff, 3, 4)),
     blue  |-> read_u16_be(SubSeq(buff, 5, 6)),
     alpha |-> read_u16_be(SubSeq(buff, 7, 8))]

\* new_farb/pixel.rs Pixel::new(red, green, blue, alpha)
Pixel(red, green, blue, alpha) ==
    [red |-> red, green |-> green, blue |-> blue, alpha |-> alpha]

(* ------------------------- the byte source ---------------------------- *)

\* the magic tag compared by check_magic and by tag!("farbfeld")
Magic == <<102, 97, 114, 98, 102, 101, 108, 100>>

\* the wire encoding of a u32 (big-endian), used to build input streams
Bytes32(u) == <<u.hi \div 256, u.hi % 256, u.lo \div 256, u.lo % 256>>

RECURSIVE Flatten(_)
Flatten(ss) == IF ss = <<>> THEN <<>> ELSE Head(ss) \o Flatten(Tail(ss))

\* widths, heights and lookup coordinates tried; the last one is 65536
DimVals == {U32(0), U32(1), U32(2), U32(3), [hi |-> 1, lo |-> 0]}

\* pixel records tried: the spec's scenario record, one with high bytes, and
\* one whose first byte is an ASCII space
RecordVals ==
    { <<0, 1, 0, 2, 0, 3, 0, 4>>,
      <<255, 255, 128, 0, 0, 32, 171, 205>>,
      <<32, 7, 0, 5, 0, 6, 0, 8>> }

RecSeqs == UNION {[1..n -> RecordVals] : n \in 0..MaxRecords}

\* what may follow the last complete record: nothing, or 1 to 7 bytes
Partials ==
    {SubSeq(<<0, 1, 0, 2, 0, 3, 0, 4>>, 1, k) : k \in 0..7}
        \cup {<<32>>, <<10, 13, 9>>}

\* sources shorter than the magic tag: its prefixes, and sequences that differ
\* from it in their last byte
ShortStreams ==
    {SubSeq(Magic, 1, k) : k \in 0..7}
        \cup {SubSeq(Magic, 1, k) \o <<0>> : k \in 0..6}

\* eight bytes that are not the magic tag (the first is the one of
\* test_fail_check_magic)
BadMagics ==
    { <<102, 97, 114, 98, 102, 101, 108, 101>>,
      <<70, 97, 114, 98, 102, 101, 108, 100>>,
      <<0, 0, 0, 0, 0, 0, 0, 0>> }

BadMagicTails ==
    { <<>>, <<0>>, Magic,
      Bytes32(U32(1)) \o Bytes32(U32(1)) \o <<0, 1, 0, 2, 0, 3, 0, 4>> }

BadMagicStreams == {m \o t : m \in BadMagics, t \in BadMagicTails}

\* the magic tag followed by 0 to 7 bytes of a dimension field
ShortDimStreams ==
    {Magic \o SubSeq(d, 1, k) :
        d \in { Bytes32(U32(2)) \o Bytes32(U32(1)),
                <<32, 32, 32, 32, 10, 10, 10, 10>> },
        k \in 0..7}

\* the magic tag, both dimension fields, complete records, a partial record
FullStreams ==
    {Magic \o Bytes32(w) \o Bytes32(h) \o Flatten(rs) \o part :
        w \in DimVals, h \in DimVals, rs \in RecSeqs, part \in Partials}

Streams == ShortStreams \cup BadMagicStreams \cup ShortDimStreams \cup FullStreams

\* the sources on which a read is made to fail
FailStreams ==
    { <<>>, Magic, Magic \o Bytes32(U32(1)) \o Bytes32(U32(1)),
      Magic \o Bytes32(U32(1)) \o Bytes32(U32(1)) \o <<0, 1, 0, 2, 0, 3, 0, 4>>,
      <<0, 0, 0, 0, 0, 0, 0, 0>> }

\* the read call that fails is one of the first MaxFailAt
MaxFailAt == 4

\* the cause of a failed read, a std::io::Error
IoCause == "io::Error"

(* ------------------------------ state --------------------------------- *)

VARIABLES
    entry,      \* the entry point under way: "load", "from_read" or "new"
    input,      \* the bytes of the source
    failAt,     \* the number of the read call that fails, 0 for none
    args,       \* the arguments of Farbfeld::new
    pc,         \* where the entry point stands
    rpos,       \* bytes of the source consumed so far
    nreads,     \* read calls made so far
    buff,       \* the 8-byte buffer of load / load_pixels
    dimensions, \* (width, height) as read by get_dimensions
    pixels,     \* the Vec<Pixel> load_pixels builds, then owned by the image
    res,        \* what the entry point returned
    look        \* the last lookup made on a loaded image

vars == <<entry, input, failAt, args, pc, rpos, nreads, buff, dimensions,
          pixels, res, look>>

Pending == [t |-> "Pending"]

NoArgs == [width |-> U32(0), height |-> U32(0), pixels |-> <<>>]

ZeroBuff == <<0, 0, 0, 0, 0, 0, 0, 0>>

\* no lookup made yet
NoLook == [op |-> "none", arg |-> None, out |-> None]

InitCommon ==
    /\ pc = "start"
    /\ rpos = 0
    /\ nreads = 0
    /\ buff = ZeroBuff
    /\ dimensions = <<U32(0), U32(0)>>
    /\ pixels = <<>>
    /\ res = Pending
    /\ look = NoLook

InitDecode ==
    /\ entry \in {"load", "from_read"}
    /\ \/ input \in Streams /\ failAt = 0
       \/ input \in FailStreams /\ failAt \in 1..MaxFailAt
    \* read_to_end fails when a read of it fails: the first one stands for all
    /\ entry = "from_read" => failAt <= 1
    /\ args = NoArgs

InitNew ==
    /\ entry = "new"
    /\ input = <<>>
    /\ failAt = 0
    /\ args \in {[width |-> w, height |-> h,
                  pixels |-> [i \in 1..Len(rs) |-> Pixel_new(rs[i])]] :
                    w \in DimVals, h \in DimVals, rs \in RecSeqs}

Init == InitCommon /\ (InitDecode \/ InitNew)

(* ------------------- farbfeld.rs: Farbfeld::load ---------------------- *)

\* FarbfeldErr{desc, super_err}; arg is the value format! puts into desc
FarbfeldErr(desc, arg, super_err) ==
    [desc |-> desc, arg |-> arg, super_err |-> super_err]

\* reader.read(&mut buff): the source hands over all it has left, up to the
\* 8 bytes asked for (a slice, a Cursor, a file), or fails with its cause
ReadResult ==
    IF failAt # 0 /\ nreads + 1 = failAt
    THEN Err(IoCause)
    ELSE Ok(IF Len(input) - rpos < 8 THEN Len(input) - rpos ELSE 8)

\* the buffer after the read: the bytes read overwrite its front
ReadInto(b) ==
    IF ReadResult.t = "Err" THEN b
    ELSE [i \in 1..8 |-> IF i <= ReadResult.v THEN input[rpos + i] ELSE b[i]]

ReadPos == IF ReadResult.t = "Err" THEN rpos ELSE rpos + ReadResult.v

check_count(count_res, count_req) ==
    IF count_res.t = "Err"
    THEN Some(FarbfeldErr("Failed to read data!", None, Some(count_res.e)))
    ELSE IF count_res.v < count_req
         THEN Some(FarbfeldErr("Failed to read correct amount of data! Read {} bytes.",
                               Some(count_res.v), None))
         ELSE None

\* check_magic with the comparison stopping one byte short of the tag
check_magic_seven(b) ==
    IF SubSeq(b, 1, 7) = <<102, 97, 114, 98, 102, 101, 108>>
    THEN None
    ELSE Some(FarbfeldErr("Invalid farbeld file! Incorrect magic number!", None, None))

check_magic(b) ==
    IF b = <<102, 97, 114, 98, 102, 101, 108, 100>>
    THEN None
    ELSE Some(FarbfeldErr("Invalid farbeld file! Incorrect magic number!", None, None))

\* both cursors hold four bytes, so neither read_u32 fails
get_dimensions(b) ==
    Ok(<<read_u32_be(SubSeq(b, 1, 4)), read_u32_be(SubSeq(b, 5, 8))>>)

Finish(r) ==
    /\ res' = r
    /\ pc' = "done"

\* load, lines 79-88: read the magic tag and check it
load_magic ==
    /\ entry = "load"
    /\ pc = "start"
    /\ nreads' = nreads + 1
    /\ rpos' = ReadPos
    /\ buff' = ReadInto(buff)
    /\ LET counted == check_count(ReadResult, 8)
           magic   == check_magic(ReadInto(buff))
       IN  IF counted.t = "Some"
           THEN Finish(Err(FarbfeldErr(
                    "Failed to read magic number data! Caused by: {}",
                    Some(counted.v), None)))
           ELSE IF magic.t = "Some"
                THEN Finish(Err(magic.v))
                ELSE pc' = "dims" /\ res' = res
    /\ UNCHANGED <<entry, input, failAt, args, dimensions, pixels, look>>

\* load, lines 90-99: read the dimension fields
load_dims ==
    /\ entry = "load"
    /\ pc = "dims"
    /\ nreads' = nreads + 1
    /\ rpos' = ReadPos
    /\ buff' = ReadInto(buff)
    /\ LET counted == check_count(ReadResult, 8)
           dimen_res == get_dimensions(ReadInto(buff))
       IN  IF counted.t = "Some"
           THEN /\ Finish(Err(FarbfeldErr(
                        "Failed to read dimension data! Caused by: {}",
                        Some(counted.v), None)))
                /\ dimensions' = dimensions
           ELSE /\ dimensions' = dimen_res.v
                /\ pc' = "alloc"
                /\ res' = res
    /\ UNCHANGED <<entry, input, failAt, args, pixels, look>>

\* load_pixels, lines 230-232: Vec::with_capacity(width * height), whose
\* product panics on overflow in a build with overflow checks and wraps in
\* one without; a fresh zeroed buffer
load_pixels_alloc ==
    /\ entry = "load"
    /\ pc = "alloc"
    /\ \E overflow_checks \in BOOLEAN :
          IF MulU32(dimensions[1], dimensions[2]).ovf /\ overflow_checks
          THEN Finish(Panic) /\ buff' = buff
          ELSE pc' = "pixels" /\ res' = res /\ buff' = ZeroBuff
    /\ pixels' = <<>>
    /\ UNCHANGED <<entry, input, failAt, args, rpos, nreads, dimensions, look>>

\* Farbfeld{pixels, width, height}
Farbfeld(ps, width, height) == [pixels |-> ps, width |-> width, height |-> height]

\* load_pixels, lines 233-260: one turn of the loop, and load's final map
load_pixels ==
    /\ entry = "load"
    /\ pc = "pixels"
    /\ nreads' = nreads + 1
    /\ rpos' = ReadPos
    /\ buff' = ReadInto(buff)
    /\ LET count_res ==
               IF ReadResult.t = "Err"
               THEN Err(FarbfeldErr("Failed to read data!", None, Some(ReadResult.e)))
               ELSE IF ReadResult.v < 8 /\ ReadResult.v # 0
                    THEN Err(FarbfeldErr(
                             "Failed to read enough data for pixels! Read {} bytes.",
                             Some(ReadResult.v), None))
                    ELSE Ok(ReadResult.v)
       IN  IF count_res.t = "Err"
           THEN Finish(count_res) /\ pixels' = pixels
           ELSE IF count_res.v = 0
                THEN /\ Finish(Ok(Farbfeld(pixels, dimensions[1], dimensions[2])))
                     /\ pixels' = pixels
                ELSE /\ pixels' = Append(pixels, Pixel_new(ReadInto(buff)))
                     /\ pc' = pc
                     /\ res' = res
    /\ UNCHANGED <<entry, input, failAt, args, dimensions, look>>

Load == load_magic \/ load_dims \/ load_pixels_alloc \/ load_pixels

(* ------------------- farbfeld.rs: the lookups ------------------------- *)

\* a reference to a pixel of the image: the slot it designates and the pixel
\* found there
Ref(img, i) == [at |-> i, px |-> img.pixels[i + 1]]

\* self.pixels.get(index): Some reference, or None when out of range
get(img, index) ==
    IF index.hi = 0 /\ index.lo < Len(img.pixels)
    THEN Some(Ref(img, index.lo))
    ELSE None

\* the u32 expression a * b + c: it panics on overflow in a build with
\* overflow checks and wraps in one without
MulAdd(a, b, c, overflow_checks) ==
    LET m == MulU32(a, b)
        r == AddU32(m.v, c)
    IN  IF overflow_checks /\ (m.ovf \/ r.ovf) THEN Panic ELSE Some(r.v)

\* self.get((self.width * pos[0] + pos[1]) as usize)
get_pos(img, pos, overflow_checks) ==
    LET index == MulAdd(img.width, pos[1], pos[2], overflow_checks)
    IN  IF index.t = "Panic" THEN Panic ELSE get(img, index.v)

\* self.pixels.get_mut(index)
get_mut(img, index) ==
    IF index.hi = 0 /\ index.lo < Len(img.pixels)
    THEN Some(Ref(img, index.lo))
    ELSE None

\* self.pixels.get_mut((self.width * pos[0] + pos[0]) as usize)
get_pos_mut(img, pos, overflow_checks) ==
    LET index == MulAdd(img.width, pos[1], pos[1], overflow_checks)
    IN  IF index.t = "Panic" THEN Panic ELSE get_mut(img, index.v)

\* Index<usize> and IndexMut<usize>: &self.pixels[index] panics out of range
index_usize(img, index) ==
    IF index.hi = 0 /\ index.lo < Len(img.pixels)
    THEN Some(Ref(img, index.lo))
    ELSE Panic

\* Index<[u32; 2]> and IndexMut<[u32; 2]>:
\* &self.pixels[(index[0] * self.width + index[1]) as usize]
index_pos(img, index, overflow_checks) ==
    LET i == MulAdd(index[1], img.width, index[2], overflow_checks)
    IN  IF i.t = "Panic" THEN Panic ELSE index_usize(img, i.v)

\* coordinates tried by the lookups; the last one is 65536
PosVals == {U32(0), U32(1), U32(2), [hi |-> 1, lo |-> 0]}

\* linear indices tried by the lookups; the last one is 65536
IndexVals == {U32(i) : i \in 0..MaxIndex} \cup {[hi |-> 1, lo |-> 0]}

Looked(op, arg, out) == look' = [op |-> op, arg |-> arg, out |-> out]

\* a caller of load looks a pixel up in the image it got; the lookups read
\* the image and leave it as it is, so one lookup per run shows them all
Lookup ==
    /\ entry = "load"
    /\ pc = "done"
    /\ res.t = "Ok"
    /\ look = NoLook
    /\ \/ \E i \in IndexVals : Looked("get", i, get(res.v, i))
       \/ \E i \in IndexVals : Looked("get_mut", i, get_mut(res.v, i))
       \/ \E i \in IndexVals : Looked("index", i, index_usize(res.v, i))
       \/ \E x \in PosVals, y \in PosVals, c \in BOOLEAN :
             Looked("get_pos", <<x, y>>, get_pos(res.v, <<x, y>>, c))
       \/ \E x \in PosVals, y \in PosVals, c \in BOOLEAN :
             Looked("get_pos_mut", <<x, y>>, get_pos_mut(res.v, <<x, y>>, c))
       \/ \E x \in PosVals, y \in PosVals, c \in BOOLEAN :
             Looked("index_pos", <<x, y>>, index_pos(res.v, <<x, y>>, c))
    /\ UNCHANGED <<entry, input, failAt, args, pc, rpos, nreads, buff,
                   dimensions, pixels, res>>

\* the channels a caller writes through a mutable reference, and the u16
\* values written (neither is a channel value of RecordVals)
ChannelVals == {"red", "alpha"}

WriteVals == {9, 65534}

\* the image a caller of load owns: the Vec load_pixels built was moved into
\* it, so a write through a mutable reference lands in that Vec
image == Farbfeld(pixels, res.v.width, res.v.height)

\* *p = value of one channel, for the pixel p a mutable reference designates
write_channel(ps, i, ch, v) == [ps EXCEPT ![i + 1][ch] = v]

\* a caller of load writes a channel through get_pos_mut(pos) when it returns
\* a reference, and then reads the same position back with get_pos(pos); a
\* panic in get_pos_mut ends the program before the read
write_pos ==
    /\ entry = "load"
    /\ pc = "done"
    /\ res.t = "Ok"
    /\ look = NoLook
    /\ \E x \in PosVals, y \in PosVals, ch \in ChannelVals, v \in WriteVals,
          c \in BOOLEAN :
          LET m     == get_pos_mut(image, <<x, y>>, c)
              after == IF m.t = "Some"
                       THEN write_channel(pixels, m.v.at, ch, v)
                       ELSE pixels
              r     == IF m.t = "Panic" THEN Panic
                       ELSE get_pos(Farbfeld(after, res.v.width, res.v.height),
                                    <<x, y>>, c)
          IN  /\ pixels' = after
              /\ Looked("write_pos", [pos |-> <<x, y>>, channel |-> ch, value |-> v],
                        [designated |-> m, read |-> r])
    /\ UNCHANGED <<entry, input, failAt, args, pc, rpos, nreads, buff,
                   dimensions, res>>

(* ---------------- new_farb: Farbfeld::new and the parser --------------- *)

\* an Error of new_farb::error with its ErrorKind and what the kind carries
KindErr(kind, arg) == [kind |-> kind, arg |-> arg]

\* Farbfeld::new: (width * height) as usize > pixels.len() is refused; the
\* product panics on overflow in a build with overflow checks and wraps in
\* one without
Farbfeld_new(width, height, ps, overflow_checks) ==
    LET product == MulU32(width, height)
    IN  IF product.ovf /\ overflow_checks
        THEN Panic
        ELSE IF GtLen(product.v, Len(ps))
             THEN Err(KindErr("InvalidFarbfeldDimensions", None))
             ELSE Ok(Farbfeld(ps, width, height))

\* nom's IResult
Done(rest, out) == [t |-> "Done", rest |-> rest, out |-> out]

Error(kind) == [t |-> "Error", kind |-> kind]

Incomplete(need) == [t |-> "Incomplete", need |-> need]

Drop(i, n) == SubSeq(i, n + 1, Len(i))

\* tag!("farbfeld"): the common prefix is compared first, so a short input
\* that already differs is an Error and a short prefix of the tag is Incomplete
tag(i, t) ==
    LET m == IF Len(i) < Len(t) THEN Len(i) ELSE Len(t)
    IN  IF SubSeq(i, 1, m) # SubSeq(t, 1, m)
        THEN Error("Tag")
        ELSE IF m < Len(t)
             THEN Incomplete(Len(t))
             ELSE Done(Drop(i, Len(t)), SubSeq(i, 1, Len(t)))

be_u32(i) ==
    IF Len(i) < 4 THEN Incomplete(4)
    ELSE Done(Drop(i, 4), [hi |-> i[1] * 256 + i[2], lo |-> i[3] * 256 + i[4]])

be_u16(i) ==
    IF Len(i) < 2 THEN Incomplete(2)
    ELSE Done(Drop(i, 2), i[1] * 256 + i[2])

\* the bytes ws! takes for separators: space, tab, carriage return, line feed
Whitespace == {32, 9, 13, 10}

\* nom::sp: the input with its leading separator bytes eaten; it never fails
RECURSIVE sp(_)
sp(i) == IF i # <<>> /\ Head(i) \in Whitespace THEN sp(Tail(i)) ELSE i

\* parse_pixel: ws!(do_parse!(red: be_u16 >> green: be_u16 >> blue: be_u16 >>
\* alpha: be_u16 >> (Pixel::new(..)))): separators are eaten before each
\* field and after the last one
parse_pixel(i) ==
    LET red == be_u16(sp(i))
    IN  IF red.t # "Done" THEN red ELSE
    LET green == be_u16(sp(red.rest))
    IN  IF green.t # "Done" THEN green ELSE
    LET blue == be_u16(sp(green.rest))
    IN  IF blue.t # "Done" THEN blue ELSE
    LET alpha == be_u16(sp(blue.rest))
    IN  IF alpha.t # "Done" THEN alpha ELSE
        Done(sp(alpha.rest), Pixel(red.out, green.out, blue.out, alpha.out))

\* many0!(parse_pixel) on what is left of i0 as i, with the pixels so far
RECURSIVE many0_parse_pixel(_, _, _)
many0_parse_pixel(i0, i, acc) ==
    IF Len(i) = 0 THEN Done(i, acc)
    ELSE LET r == parse_pixel(i)
         IN  CASE r.t = "Error" -> Done(i, acc)
               [] r.t = "Incomplete" -> Incomplete(r.need + (Len(i0) - Len(i)))
               [] OTHER ->
                    IF r.rest = i THEN Error("Many0")
                    ELSE many0_parse_pixel(i0, r.rest, Append(acc, r.out))

\* expr_res!(Farbfeld::new(width, height, pixels)): the Err is dropped for
\* nom's ErrorKind::ExprRes
expr_res(i, r) ==
    IF r.t = "Ok" THEN Done(i, r.v) ELSE Error("ExprRes")

\* parse_farb: do_parse! adds the bytes consumed so far to what an
\* Incomplete field needs
parse_farb(i, overflow_checks) ==
    LET magic == tag(i, Magic)
    IN  IF magic.t # "Done" THEN magic ELSE
    LET width == be_u32(magic.rest)
    IN  IF width.t # "Done" THEN Incomplete(8 + width.need) ELSE
    LET height == be_u32(width.rest)
    IN  IF height.t # "Done" THEN Incomplete(12 + height.need) ELSE
    LET ps == many0_parse_pixel(height.rest, height.rest, <<>>)
    IN  IF ps.t = "Incomplete" THEN Incomplete(16 + ps.need) ELSE
        IF ps.t = "Error" THEN ps ELSE
    LET made == Farbfeld_new(width.out, height.out, ps.out, overflow_checks)
    IN  IF made.t = "Panic" THEN Panic ELSE expr_res(ps.rest, made)

i_to_res(r) ==
    CASE r.t = "Incomplete" -> Err(KindErr("NotEnoughDataError", r.need))
      [] r.t = "Done" -> Ok(r.out)
      [] r.t = "Error" -> Err(KindErr("NomError", r.kind))
      [] OTHER -> r

\* Farbfeld::from_read: read_to_end, then the parser on all the bytes
from_read ==
    /\ entry = "from_read"
    /\ pc = "start"
    /\ \E overflow_checks \in BOOLEAN :
          IF failAt # 0
          THEN Finish(Err(KindErr("IoError", IoCause)))
          ELSE Finish(i_to_res(parse_farb(input, overflow_checks)))
    /\ nreads' = nreads + 1
    /\ rpos' = IF failAt # 0 THEN rpos ELSE Len(input)
    /\ UNCHANGED <<entry, input, failAt, args, buff, dimensions, pixels, look>>

\* a caller builds an image with the validating constructor
new ==
    /\ entry = "new"
    /\ pc = "start"
    /\ \E overflow_checks \in BOOLEAN :
          Finish(Farbfeld_new(args.width, args.height, args.pixels, overflow_checks))
    /\ UNCHANGED <<entry, input, failAt, args, rpos, nreads, buff, dimensions,
                   pixels, look>>

Next == Load \/ Lookup \/ write_pos \/ from_read \/ new

Spec == Init /\ [][Next]_vars

(* ===================== the claims, stated on the wire ================== *)
(* The wire format of spec section 6, read off the input independently of   *)
(* the decoders: what a stream declares and what it holds.                  *)

WireU16(b) == b[1] * 256 + b[2]

WireU32(b) == [hi |-> WireU16(SubSeq(b, 1, 2)), lo |-> WireU16(SubSeq(b, 3, 4))]

HasMagic == Len(input) >= 8 /\ SubSeq(input, 1, 8) = Magic

HasDims == HasMagic /\ Len(input) >= 16

DeclaredWidth == WireU32(SubSeq(input, 9, 12))

DeclaredHeight == WireU32(SubSeq(input, 13, 16))

\* complete 8-byte records after the dimension fields, and the bytes left over
NRecords == (Len(input) - 16) \div 8

PartialLen == (Len(input) - 16) % 8

\* the k-th record (from 0) of the stream, bytes [16 + 8k, 16 + 8k + 8)
WireRecord(k) == SubSeq(input, 16 + 8 * k + 1, 16 + 8 * k + 8)

WirePixel(b) ==
    [red   |-> WireU16(SubSeq(b, 1, 2)), green |-> WireU16(SubSeq(b, 3, 4)),
     blue  |-> WireU16(SubSeq(b, 5, 6)), alpha |-> WireU16(SubSeq(b, 7, 8))]

\* the declared width * height, as a mathematical product, is n
ProductIs(w, h, n) == ~MulU32(w, h).ovf /\ MulU32(w, h).v = U32(n)

\* a stream of the magic tag, the dimension fields and exactly w*h records
WellFormed ==
    /\ HasDims
    /\ PartialLen = 0
    /\ ProductIs(DeclaredWidth, DeclaredHeight, NRecords)

\* a decoder has returned, and no read of the source failed
Returned(e) == entry = e /\ pc = "done" /\ failAt = 0

\* x < w and y < h for a lookup position <<x, y>>
InGrid(pos, w, h) ==
    /\ pos[1].hi = 0 /\ w.hi = 0 /\ pos[1].lo < w.lo
    /\ pos[2].hi = 0 /\ h.hi = 0 /\ pos[2].lo < h.lo

(* C1: load of a stream made of the magic tag, width w, height h and        *)
(* exactly w*h records succeeds with an image of width w and height h, and  *)
(* the coordinate lookup get_pos of (x, y), x < w, y < h, returns the       *)
(* (y*w + x)-th encoded record.                                             *)
C1_DecodeGrid ==
    (Returned("load") /\ WellFormed) =>
        /\ res.t = "Ok"
        /\ res.v.width = DeclaredWidth
        /\ res.v.height = DeclaredHeight
        /\ (look.op = "get_pos" /\ InGrid(look.arg, DeclaredWidth, DeclaredHeight)) =>
              LET k == look.arg[2].lo * DeclaredWidth.lo + look.arg[1].lo
              IN  look.out = Some([at |-> k, px |-> WirePixel(WireRecord(k))])

(* The error kinds of spec section 7, read off the tag an error value has:  *)
(* for load's FarbfeldErr its description (and whether it holds a cause),   *)
(* for new_farb's Error its ErrorKind (and nom's error kind inside it).     *)

LoadKind(e) ==
    CASE e.super_err # None -> "IoError"
      [] e.desc = "Failed to read magic number data! Caused by: {}" -> "TruncatedHeader"
      [] e.desc = "Invalid farbeld file! Incorrect magic number!" -> "InvalidMagic"
      [] e.desc = "Failed to read dimension data! Caused by: {}" -> "TruncatedDimensions"
      [] e.desc = "Failed to read enough data for pixels! Read {} bytes."
            -> "TruncatedPixelRecord"
      [] OTHER -> "Other"

\* NotEnoughDataError is one tag for every truncation
ReadKind(e) ==
    CASE e.kind = "IoError" -> "IoError"
      [] e.kind = "InvalidFarbfeldDimensions" -> "DimensionMismatch"
      [] e.kind = "NotEnoughDataError" -> "Truncated"
      [] e.kind = "NomError" ->
            (CASE e.arg = "Tag" -> "InvalidMagic"
               [] e.arg = "ExprRes" -> "DimensionMismatch"
               [] OTHER -> "Other")
      [] OTHER -> "Other"

(* C2: the validating constructor Farbfeld::new succeeds only if the number *)
(* of pixels is the mathematical product width * height, and otherwise      *)
(* fails with DimensionMismatch (InvalidFarbfeldDimensions).                *)
C2_ConstructChecked ==
    (entry = "new" /\ pc = "done") =>
        IF ProductIs(args.width, args.height, Len(args.pixels))
        THEN res.t = "Ok" => Len(res.v.pixels) = Len(args.pixels)
        ELSE res.t = "Err" /\ ReadKind(res.e) = "DimensionMismatch"

\* a stream of the magic tag, the dimension fields and complete records only,
\* whose number is not the declared width * height
CountMismatch ==
    /\ HasDims
    /\ PartialLen = 0
    /\ ~ProductIs(DeclaredWidth, DeclaredHeight, NRecords)

(* C3: a stream with a valid magic tag and dimension fields whose number of *)
(* complete records differs from the declared width * height, fewer or      *)
(* more, makes decode (load, from_read) fail with DimensionMismatch.        *)
C3_MismatchRefused ==
    /\ (Returned("load") /\ CountMismatch) =>
            res.t = "Err" /\ LoadKind(res.e) = "DimensionMismatch"
    /\ (Returned("from_read") /\ CountMismatch) =>
            res.t = "Err" /\ ReadKind(res.e) = "DimensionMismatch"

(* C4: after the dimension fields, decoding ends without error only at a    *)
(* record boundary, and 1 to 7 bytes after the last complete record make    *)
(* decode (load, from_read) fail with TruncatedPixelRecord carrying that    *)
(* partial byte count, however many complete records precede them.  (What   *)
(* from_read's NotEnoughDataError carries is nom's Needed, the bytes asked  *)
(* for and not the bytes read: it is left out of the comparison.)           *)
C4_PartialRecordRefused ==
    /\ (Returned("load") /\ HasDims) =>
          /\ res.t = "Ok" => PartialLen = 0
          /\ PartialLen # 0 =>
                /\ res.t = "Err"
                /\ LoadKind(res.e) = "TruncatedPixelRecord"
                /\ res.e.arg = Some(PartialLen)
    /\ (Returned("from_read") /\ HasDims) =>
          /\ res.t = "Ok" => PartialLen = 0
          /\ PartialLen # 0 =>
                /\ res.t = "Err"
                /\ ReadKind(res.e) = "Truncated"

\* the pixels the records of the stream encode, in order
WirePixels == [k \in 1..NRecords |-> WirePixel(WireRecord(k - 1))]

(* C5: every complete 8-byte record, whatever its bytes, becomes exactly    *)
(* one pixel whose channels are the big-endian 16-bit values of its bytes   *)
(* [0,2), [2,4), [4,6), [6,8): the k-th pixel decoded (by load_pixels, by   *)
(* parse_pixel) is the one of stream bytes [16 + 8k, 16 + 8k + 8).          *)
C5_RecordsDecodedInPlace ==
    /\ (entry = "load" /\ failAt = 0 /\ pc = "pixels") =>
          /\ Len(pixels) <= NRecords
          /\ \A k \in 1..Len(pixels) : pixels[k] = WirePixels[k]
    /\ (Returned("load") /\ WellFormed) =>
          res.t = "Ok" /\ res.v.pixels = WirePixels
    /\ (Returned("from_read") /\ WellFormed) =>
          res.t = "Ok" /\ res.v.pixels = WirePixels

\* at least 8 bytes, and the first 8 are not the magic tag
BadMagic == Len(input) >= 8 /\ SubSeq(input, 1, 8) # Magic

(* C6: every byte sequence whose first 8 bytes are not exactly the magic    *)
(* tag makes decode (load, from_read) fail with InvalidMagic, whatever      *)
(* bytes follow and however many.                                           *)
C6_BadMagicRefused ==
    /\ (Returned("load") /\ BadMagic) =>
            res.t = "Err" /\ LoadKind(res.e) = "InvalidMagic"
    /\ (Returned("from_read") /\ BadMagic) =>
            res.t = "Err" /\ ReadKind(res.e) = "InvalidMagic"

\* load has refused a stream that differs from the magic tag in its eighth
\* byte only and goes on after it
C6_Witness ==
    /\ Returned("load")
    /\ Len(input) > 8
    /\ SubSeq(input, 1, 7) = SubSeq(Magic, 1, 7)
    /\ input[8] # Magic[8]
    /\ res.t = "Err"
    /\ LoadKind(res.e) = "InvalidMagic"

(* C7: every byte sequence of length 0 to 7 makes decode (load, from_read)  *)
(* fail with TruncatedHeader and no other kind, also when the bytes are a   *)
(* prefix of the magic tag.                                                 *)
C7_ShortHeaderTruncated ==
    /\ (Returned("load") /\ Len(input) < 8) =>
            res.t = "Err" /\ LoadKind(res.e) = "TruncatedHeader"
    /\ (Returned("from_read") /\ Len(input) < 8) =>
            res.t = "Err" /\ ReadKind(res.e) = "Truncated"

\* what from_read returns for a given source
FromReadOf(bytes) == i_to_res(parse_farb(bytes, FALSE))

(* C8: the magic tag followed by 0 to 7 further bytes makes decode (load,   *)
(* from_read) fail with TruncatedDimensions, a kind that is neither the one *)
(* of a truncated header nor the one of a truncated pixel record.           *)
C8_ShortDimsTruncated ==
    /\ (Returned("load") /\ HasMagic /\ Len(input) < 16) =>
            res.t = "Err" /\ LoadKind(res.e) = "TruncatedDimensions"
    /\ (Returned("from_read") /\ HasMagic /\ Len(input) < 16) =>
            /\ res.t = "Err"
            /\ ReadKind(res.e) = "Truncated"
            /\ res.e.kind # FromReadOf(SubSeq(Magic, 1, 7)).e.kind
            /\ res.e.kind # FromReadOf(Magic \o Bytes32(U32(2)) \o Bytes32(U32(1))
                                         \o <<0>>).e.kind

\* the read that was made to fail has been made
ReadFailed == failAt # 0 /\ nreads >= failAt

(* C9: a failure of the byte source during any read of decode (header,      *)
(* dimension fields, pixel record) makes decode fail with IoError carrying  *)
(* the underlying cause, never with another kind and never without it.      *)
C9_IoErrorKeepsCause ==
    /\ (entry = "load" /\ pc = "done" /\ ReadFailed) =>
            /\ res.t = "Err"
            /\ LoadKind(res.e) = "IoError"
            /\ res.e.super_err = Some(IoCause)
    /\ (entry = "from_read" /\ pc = "done" /\ ReadFailed) =>
            /\ res.t = "Err"
            /\ ReadKind(res.e) = "IoError"
            /\ res.e.arg = IoCause

\* y * width + x, computed without wraparound, is below the pixel count
TrueIndexInRange(img, pos) ==
    LET m == MulU32(pos[2], img.width)
        r == AddU32(m.v, pos[1])
    IN  ~m.ovf /\ ~r.ovf /\ r.v.hi = 0 /\ r.v.lo < Len(img.pixels)

(* C10: on every image, a lookup by linear index i at or past the pixel     *)
(* count returns absent, a lookup by coordinate (x, y) returns absent when  *)
(* y * width + x, computed without wraparound, is at or past the pixel      *)
(* count, and no lookup panics.  Stated for the lookups that return an      *)
(* Option (get, get_mut, get_pos, get_pos_mut); the indexing operators      *)
(* Index and IndexMut panic out of range.                                   *)
C10_LookupsChecked ==
    (entry = "load" /\ look.op \in {"get", "get_mut", "get_pos", "get_pos_mut"}) =>
        /\ look.out.t # "Panic"
        /\ (look.op \in {"get", "get_mut"}
               /\ ~(look.arg.hi = 0 /\ look.arg.lo < Len(res.v.pixels)))
             => look.out = None
        /\ (look.op \in {"get_pos", "get_pos_mut"}
               /\ ~TrueIndexInRange(res.v, look.arg))
             => look.out = None

(* C11: on every image and for every position pos, get_pos_mut(pos)         *)
(* designates the pixel at the same linear index as get_pos(pos) and is     *)
(* absent exactly when get_pos(pos) is absent: a channel written through    *)
(* get_pos_mut(pos) is read back by get_pos(pos) at that position, and no   *)
(* other pixel of the image changes.  Stated on the images load returns    *)
(* for well-formed streams, whose pixel count is width * height.            *)
C11_MutDesignatesSamePixel ==
    (Returned("load") /\ WellFormed /\ look.op = "write_pos") =>
        LET m == look.out.designated
            r == look.out.read
        IN  /\ m.t = r.t
            /\ m.t = "Some" =>
                  /\ r.v.at = m.v.at
                  /\ r.v.px[look.arg.channel] = look.arg.value
                  /\ \A i \in 1..Len(pixels) :
                        i # r.v.at + 1 => pixels[i] = res.v.pixels[i]
            /\ m.t # "Some" => pixels = res.v.pixels

=============================================================================
